---- MODULE Spec2Model ----
(***************************************************************************)
(* cso2-master-server: the outbound channel-info packet descriptor         *)
(* (ServerListChannelInfo) and the users-service User entity.              *)
(*                                                                         *)
(* The packet part models a ServerListChannelInfo built from a Channel and *)
(* written, one write call per step, into an OutPacketBase writer.  The    *)
(* writer itself (packets/out/packet) is not among the source files; its   *)
(* three write operations follow the Primitive Writer contract of the      *)
(* specification (section 4.1), with a one-byte length prefix as the       *)
(* length-delimited string convention and UTF-8 as the string encoding.    *)
(***************************************************************************)
EXTENDS Integers, Sequences, FiniteSets, TLC

\* ------------------------------------------------------------------ bounds

\* how many times one descriptor is built (each time on a fresh writer)
MaxBuilds == 2
\* how many times a Channel entity is changed after a descriptor was made of it
MaxMutations == 1

\* how many calls of User operations are made in all
MaxCalls == 3
\* how many rows the users table's serial id gives out
MaxUsers == 2

\* ------------------------------------------------------- wire-format ranges

\* the largest value of a 1-byte field, writeUInt8's range [0,255]
UInt8Max == 255
\* the largest value of a 2-byte field, writeUInt16's range [0,65535]
UInt16Max == 65535

Builders == {1, 2}

\* option values: null is the empty sequence, a value v is <<v>>
Null == <<>>
Some(v) == <<v>>

\* ------------------------------------------------------------ channel data

\* names are sequences of code points (all below 0x800)
Repeat(c, n) == [i \in 1..n |-> c]
NameLobby == <<76, 111, 98, 98, 121>>
NameEmpty == <<>>
\* "Cé": one character of two bytes
NameCafe == <<67, 233>>
\* the longest and the shortest over-long ASCII names
NameMax == Repeat(65, UInt8Max)
NameTooLong == Repeat(65, UInt8Max + 1)
\* 128 characters: fewer than the maximum, and 255 or 256 bytes
NameMaxMulti == Repeat(233, UInt8Max \div 2) \o <<65>>
NameTooLongMulti == Repeat(233, (UInt8Max + 1) \div 2)

Names == {NameLobby, NameEmpty, NameCafe, NameMax, NameMaxMulti, NameTooLong,
          NameTooLongMulti}
Indexes == {-1, 0, 3, UInt8Max, UInt8Max + 1}

\* the Channel entity as the descriptor reads it
Channel(index, name) == [index |-> index, name |-> name]
Channels == {Channel(i, n) : i \in Indexes, n \in Names}

\* what a Channel is changed to after a descriptor was made of it
MutatedChannels == {Channel(7, NameCafe), Channel(UInt8Max + 45, NameTooLong)}

\* the channels of the two concurrent builds
ConcChannels == {Channel(3, NameLobby), Channel(0, NameCafe),
                 Channel(UInt8Max + 1, NameEmpty), Channel(UInt8Max, NameTooLongMulti)}

\* a writer as build receives it: fresh, or holding an envelope's opcode byte
EmptyWriter == [buf |-> <<>>, offset |-> 0]
FreshWriters == {EmptyWriter, [buf |-> <<85>>, offset |-> 1]}

VARIABLES
    littleEndian,   \* the protocol-wide byte order of 2-byte fields
    channel,        \* channel[b]: the Channel entity builder b's descriptor is made of
    desc,           \* desc[b]: Null, or the ServerListChannelInfo (its seven fields)
    pc,             \* pc[b]: "off" | "new" | "ready" | "build" | "done" | "failed"
    field,          \* field[b]: during build, the write call that runs next (1..7)
    writer,         \* writer[b]: the OutPacketBase given to build: bytes and cursor
    err,            \* err[b]: the error build failed with, "" if none
    before,         \* history: writer[b] as it was when build was called
    ctorChan,       \* history: the Channel as it was when the descriptor was made
    ctorDesc,       \* history: the descriptor's fields as build found them
    lastBytes,      \* history: Null, or the bytes the descriptor's previous build wrote
    builds,         \* builds[b]: how many builds of the descriptor have been started
    mutations,      \* mutations[b]: how many times channel[b] was changed
    overlapped,     \* history: a write call ran while another build was under way

    users,          \* the rows of the users table
    nextId,         \* the users table's serial id
    task,           \* task[t]: one call of a User operation: arguments, position,
                    \*          locals and what it returned
    calls,          \* how many calls have been made
    everRows        \* history: every row ever inserted, as it was inserted

packetVars == <<littleEndian, channel, desc, pc, field, writer, err, before,
                ctorChan, ctorDesc, lastBytes, builds, mutations, overlapped>>

userVars == <<users, nextId, task, calls, everRows>>

vars == <<packetVars, userVars>>

\* ---------------------------------------------------------- string encoding

\* UTF-8 of one code point below 0x800
Utf8Char(c) == IF c < 128 THEN <<c>> ELSE <<192 + (c \div 64), 128 + (c % 64)>>

\* UTF-8 of a string, halving it (the two halves encode independently)
RECURSIVE Utf8Encode(_)
Utf8Encode(s) ==
    IF s = <<>> THEN <<>>
    ELSE IF Len(s) = 1 THEN Utf8Char(s[1])
    ELSE LET h == Len(s) \div 2
         IN  Utf8Encode(SubSeq(s, 1, h)) \o Utf8Encode(SubSeq(s, h + 1, Len(s)))

\* the mirror: the code points of a UTF-8 byte sequence, halving it at a
\* character boundary (a byte that is not a continuation byte, 10xxxxxx)
IsLeadByte(x) == x < 128 \/ x >= 192
RECURSIVE Utf8Decode(_)
Utf8Decode(bs) ==
    IF bs = <<>> THEN <<>>
    ELSE IF Len(bs) = 1 THEN <<bs[1]>>
    ELSE IF Len(bs) = 2 /\ ~IsLeadByte(bs[2])
         THEN <<(bs[1] - 192) * 64 + (bs[2] - 128)>>
    ELSE LET m == Len(bs) \div 2 + 1
             h == IF IsLeadByte(bs[m]) THEN m ELSE m + 1
         IN  Utf8Decode(SubSeq(bs, 1, h - 1)) \o Utf8Decode(SubSeq(bs, h, Len(bs)))

\* ------------------------------------------------- OutPacketBase (the writer)

Append8(w, bytes) == [buf |-> w.buf \o bytes, offset |-> w.offset + Len(bytes)]
Written(w) == [ok |-> TRUE, w |-> w, err |-> ""]
RangeError(w) == [ok |-> FALSE, w |-> w, err |-> "EncodingRangeError"]

UInt16Bytes(v) ==
    IF littleEndian THEN <<v % 256, v \div 256>> ELSE <<v \div 256, v % 256>>

writeUInt8(w, v) ==
    IF v \in 0..UInt8Max THEN Written(Append8(w, <<v>>)) ELSE RangeError(w)

writeUInt16(w, v) ==
    IF v \in 0..UInt16Max THEN Written(Append8(w, UInt16Bytes(v))) ELSE RangeError(w)

writeString(w, s) ==
    LET bytes == Utf8Encode(s)
    IN  IF Len(bytes) <= UInt8Max
        THEN Written(Append8(w, <<Len(bytes)>> \o bytes))
        ELSE RangeError(w)

\* ---------------------------------------------------- ServerListChannelInfo

\* mutant: the constructor keeps only the low byte of the index
ServerListChannelInfoMasked(ch) ==
    [id |-> ch.index % 256, name |-> ch.name,
     unk00 |-> 4, unk01 |-> 500, unk02 |-> 1, unk03 |-> 0, unk04 |-> 1]

\* mutant: the constructor drops a digit of unk01 (0x1F for 0x1F4)
ServerListChannelInfoTypo(ch) ==
    [id |-> ch.index, name |-> ch.name,
     unk00 |-> 4, unk01 |-> 31, unk02 |-> 1, unk03 |-> 0, unk04 |-> 1]

\* the constructor: copies of the Channel's index and name, and the constants
ServerListChannelInfo(ch) ==
    [id |-> ch.index, name |-> ch.name,
     unk00 |-> 4, unk01 |-> 500, unk02 |-> 1, unk03 |-> 0, unk04 |-> 1]

NumFields == 7

\* the field of descriptor d that build's n-th write call reads
DescField(d, n) ==
    CASE n = 1 -> d.id
      [] n = 2 -> d.name
      [] n = 3 -> d.unk00
      [] n = 4 -> d.unk01
      [] n = 5 -> d.unk02
      [] n = 6 -> d.unk03
      [] n = 7 -> d.unk04

\* mutant: the descriptor keeps the Channel itself and build reads the
\* Channel's current index and name
FieldValueLive(b, n) ==
    CASE n = 1 -> channel[b].index
      [] n = 2 -> channel[b].name
      [] OTHER -> DescField(desc[b][1], n)

\* the value build's n-th write call reads, for builder b: this.<field>
FieldValue(b, n) == DescField(desc[b][1], n)

\* mutant: unk02 is written as a 2-byte field
BuildWriteWide(n, w, v) ==
    CASE n = 1 -> writeUInt8(w, v)
      [] n = 2 -> writeString(w, v)
      [] n = 3 -> writeUInt16(w, v)
      [] n = 4 -> writeUInt16(w, v)
      [] n = 5 -> writeUInt16(w, v)
      [] n = 6 -> writeUInt8(w, v)
      [] n = 7 -> writeUInt8(w, v)

\* build's n-th write call, of value v on writer w
BuildWrite(n, w, v) ==
    CASE n = 1 -> writeUInt8(w, v)
      [] n = 2 -> writeString(w, v)
      [] n = 3 -> writeUInt16(w, v)
      [] n = 4 -> writeUInt16(w, v)
      [] n = 5 -> writeUInt8(w, v)
      [] n = 6 -> writeUInt8(w, v)
      [] n = 7 -> writeUInt8(w, v)

\* build run from its n-th write call to its end, with nothing else running:
\* the writer it leaves and whether it completed
RECURSIVE BuildFrom(_, _, _)
BuildFrom(d, n, w) ==
    IF n > NumFields THEN [ok |-> TRUE, w |-> w]
    ELSE LET r == BuildWrite(n, w, DescField(d, n))
         IN  IF r.ok THEN BuildFrom(d, n + 1, r.w) ELSE [ok |-> FALSE, w |-> r.w]

\* ------------------------------------------------------------------ actions

\* new ServerListChannelInfo(channel)
Construct(b) ==
    /\ pc[b] = "new"
    /\ desc' = [desc EXCEPT ![b] = Some(ServerListChannelInfo(channel[b]))]
    /\ ctorChan' = [ctorChan EXCEPT ![b] = Some(channel[b])]
    /\ pc' = [pc EXCEPT ![b] = "ready"]
    /\ UNCHANGED <<littleEndian, channel, field, writer, err, before, ctorDesc,
                   lastBytes, builds, mutations, overlapped>>
    /\ UNCHANGED userVars

\* the channel subsystem changes the Channel entity a descriptor was made of
\* (build is synchronous: nothing of the same thread runs inside it)
MutateChannel(b) ==
    /\ pc[b] \in {"ready", "done", "failed"}
    /\ mutations[b] < MaxMutations
    /\ \E ch \in MutatedChannels :
          /\ ch # channel[b]
          /\ channel' = [channel EXCEPT ![b] = ch]
    /\ mutations' = [mutations EXCEPT ![b] = @ + 1]
    /\ UNCHANGED <<littleEndian, desc, pc, field, writer, err, before, ctorChan,
                   ctorDesc, lastBytes, builds, overlapped>>
    /\ UNCHANGED userVars

\* descriptor.build(outPacket) is called with a writer of the caller's
CallBuild(b) ==
    /\ pc[b] = "ready"
    /\ \E w \in FreshWriters :
          /\ writer' = [writer EXCEPT ![b] = w]
          /\ before' = [before EXCEPT ![b] = w]
    /\ ctorDesc' = [ctorDesc EXCEPT ![b] = desc[b]]
    /\ builds' = [builds EXCEPT ![b] = @ + 1]
    /\ pc' = [pc EXCEPT ![b] = "build"]
    /\ field' = [field EXCEPT ![b] = 1]
    /\ UNCHANGED <<littleEndian, channel, desc, err, ctorChan, lastBytes, mutations,
                   overlapped>>
    /\ UNCHANGED userVars

\* mutant: every build writes through one shared writer (builder 1's)
BuildStepShared(b) ==
    /\ pc[b] = "build"
    /\ LET r == BuildWrite(field[b], writer[1], FieldValue(b, field[b]))
       IN  /\ writer' = [writer EXCEPT ![1] = r.w]
           /\ err' = [err EXCEPT ![b] = r.err]
           /\ pc' = [pc EXCEPT ![b] =
                        IF ~r.ok THEN "failed"
                        ELSE IF field[b] = NumFields THEN "done" ELSE "build"]
           /\ field' = [field EXCEPT ![b] =
                        IF r.ok /\ field[b] < NumFields THEN @ + 1 ELSE @]
    /\ overlapped' = (overlapped \/ \E c \in Builders \ {b} :
                                        pc[c] = "build" /\ field[c] > 1)
    /\ UNCHANGED <<littleEndian, channel, desc, before, ctorChan, ctorDesc,
                   lastBytes, builds, mutations>>
    /\ UNCHANGED userVars

\* mutant: build's last write call resets the flag field it wrote (unk04)
BuildStepResets(b) ==
    /\ pc[b] = "build"
    /\ LET r == BuildWrite(field[b], writer[b], FieldValue(b, field[b]))
       IN  /\ writer' = [writer EXCEPT ![b] = r.w]
           /\ err' = [err EXCEPT ![b] = r.err]
           /\ pc' = [pc EXCEPT ![b] =
                        IF ~r.ok THEN "failed"
                        ELSE IF field[b] = NumFields THEN "done" ELSE "build"]
           /\ field' = [field EXCEPT ![b] =
                        IF r.ok /\ field[b] < NumFields THEN @ + 1 ELSE @]
           /\ desc' = IF r.ok /\ field[b] = NumFields
                      THEN [desc EXCEPT ![b] = Some([desc[b][1] EXCEPT !.unk04 = 0])]
                      ELSE desc
    /\ overlapped' = (overlapped \/ \E c \in Builders \ {b} :
                                        pc[c] = "build" /\ field[c] > 1)
    /\ UNCHANGED <<littleEndian, channel, before, ctorChan, ctorDesc,
                   lastBytes, builds, mutations>>
    /\ UNCHANGED userVars

\* one write call of build; the error of a failed write leaves build at once
BuildStep(b) ==
    /\ pc[b] = "build"
    /\ LET r == BuildWrite(field[b], writer[b], FieldValue(b, field[b]))
       IN  /\ writer' = [writer EXCEPT ![b] = r.w]
           /\ err' = [err EXCEPT ![b] = r.err]
           /\ pc' = [pc EXCEPT ![b] =
                        IF ~r.ok THEN "failed"
                        ELSE IF field[b] = NumFields THEN "done" ELSE "build"]
           /\ field' = [field EXCEPT ![b] =
                        IF r.ok /\ field[b] < NumFields THEN @ + 1 ELSE @]
    /\ overlapped' = (overlapped \/ \E c \in Builders \ {b} :
                                        pc[c] = "build" /\ field[c] > 1)
    /\ UNCHANGED <<littleEndian, channel, desc, before, ctorChan, ctorDesc,
                   lastBytes, builds, mutations>>
    /\ UNCHANGED userVars

\* the bytes builder b's build has appended to its writer so far
Appended(b) == SubSeq(writer[b].buf, Len(before[b].buf) + 1, Len(writer[b].buf))

\* the same descriptor is built once more, on another fresh writer
Rebuild(b) ==
    /\ pc[b] = "done"
    /\ builds[b] < MaxBuilds
    /\ lastBytes' = [lastBytes EXCEPT ![b] = Some(Appended(b))]
    /\ \E w \in FreshWriters :
          /\ writer' = [writer EXCEPT ![b] = w]
          /\ before' = [before EXCEPT ![b] = w]
    /\ ctorDesc' = [ctorDesc EXCEPT ![b] = desc[b]]
    /\ builds' = [builds EXCEPT ![b] = @ + 1]
    /\ pc' = [pc EXCEPT ![b] = "build"]
    /\ field' = [field EXCEPT ![b] = 1]
    /\ UNCHANGED <<littleEndian, channel, desc, err, ctorChan, mutations, overlapped>>
    /\ UNCHANGED userVars

\* ================================================================== User

Tasks == {1, 2}
UserNames == {"alice", "bob"}
Passwords == {1, 2, 3}
Salts == {0, 1}
SanitizeArgs == {"omitted", "true", "false"}
\* the SetUserBody values (one column, points, stands for the body's columns)
Bodies == {10, 20}

\* ---- HashContainer (module 'hash')
\* a digest that depends on the settings (the salt) and lets two passwords collide
Digest(salt, password) == (password + salt) % 2
\* HashContainer.create(password): fresh settings, chosen by the caller of this
HashCreate(salt, password) == [salt |-> salt, digest |-> Digest(salt, password)]
\* hash.build(): the stored string form
HashBuild(h) == <<h.salt, h.digest>>
\* HashContainer.from(stored)
HashFrom(stored) == [salt |-> stored[1], digest |-> stored[2]]
\* target.cloneSettings(password): the password hashed with target's settings
CloneSettings(target, password) ==
    [salt |-> target.salt, digest |-> Digest(target.salt, password)]
\* target.compare(other)
HashCompare(target, other) == target.digest = other.digest

\* ---- the queries of user.ts
\* SELECT * FROM users WHERE id = userId
SelectById(userId) == {r \in users : r.id = userId}
\* SELECT * FROM users WHERE username = userName
SelectByName(userName) == {r \in users : r.username = userName}
\* UPDATE users SET ... WHERE id = userId
UpdateById(userId, body) ==
    {IF r.id = userId THEN [r EXCEPT !.points = body] ELSE r : r \in users}
\* DELETE FROM users WHERE id = userId
DeleteById(userId) == {r \in users : r.id # userId}
\* the row of INSERT INTO users (username, playername, password_hash,
\* security_question_index, security_answer_hash) VALUES (...) RETURNING *
InsertedRow(id, userName, passwordHash, securityQuestion, secAnswerHash) ==
    [id |-> id, username |-> userName, playername |-> userName,
     password_hash |-> Some(HashBuild(passwordHash)),
     security_question_index |-> Some(securityQuestion),
     security_answer_hash |-> Some(HashBuild(secAnswerHash)),
     points |-> 0]

\* mutant: the answer hash is left in the object
SanitizeForPublicPartial(user) ==
    [user EXCEPT !.password_hash = Null, !.security_question_index = Null]

SanitizeForPublic(user) ==
    [user EXCEPT !.password_hash = Null,
                 !.security_question_index = Null,
                 !.security_answer_hash = Null]

\* the value of the sanitize parameter (sanitize = true when omitted)
SanitizeParam(arg) == IF arg = "omitted" THEN TRUE ELSE arg = "true"

\* what getById and getByName make of the rows of their SELECT
GetResult(rows, sanitize) ==
    IF Cardinality(rows) = 0 THEN [threw |-> FALSE, user |-> Null]
    ELSE IF Cardinality(rows) = 1
         THEN LET row == CHOOSE r \in rows : TRUE
              IN  [threw |-> FALSE,
                   user |-> Some(IF sanitize = TRUE THEN SanitizeForPublic(row) ELSE row)]
    ELSE [threw |-> TRUE, user |-> Null]

IdleTask ==
    [op |-> "idle", pc |-> "idle", userId |-> 0, userName |-> "", password |-> 0,
     sanitize |-> "omitted", body |-> 0, row |-> Null, updated |-> 0,
     retBool |-> FALSE, retId |-> Null, retUser |-> Null]

Start(t) == task[t].pc = "idle" /\ calls < MaxCalls

\* User.getById(userId, sanitize), called from outside
GetById(t) ==
    /\ Start(t)
    /\ \E userId \in 1..MaxUsers, arg \in SanitizeArgs :
          LET res == GetResult(SelectById(userId), SanitizeParam(arg))
          IN  task' = [task EXCEPT ![t] =
                  [IdleTask EXCEPT !.op = "getById", !.userId = userId,
                                   !.sanitize = arg, !.retUser = res.user,
                                   !.pc = IF res.threw THEN "threw" ELSE "returned"]]
    /\ calls' = calls + 1
    /\ UNCHANGED <<users, nextId, everRows, packetVars>>

\* User.getByName(userName, sanitize), called from outside
GetByName(t) ==
    /\ Start(t)
    /\ \E userName \in UserNames, arg \in SanitizeArgs :
          LET res == GetResult(SelectByName(userName), SanitizeParam(arg))
          IN  task' = [task EXCEPT ![t] =
                  [IdleTask EXCEPT !.op = "getByName", !.userName = userName,
                                   !.sanitize = arg, !.retUser = res.user,
                                   !.pc = IF res.threw THEN "threw" ELSE "returned"]]
    /\ calls' = calls + 1
    /\ UNCHANGED <<users, nextId, everRows, packetVars>>

\* User.set up to its UPDATE: await User.getById(userId, false)
SetCheck(t) ==
    /\ Start(t)
    /\ \E userId \in 1..MaxUsers, body \in Bodies :
          LET res == GetResult(SelectById(userId), FALSE)
          IN  task' = [task EXCEPT ![t] =
                  [IdleTask EXCEPT !.op = "set", !.userId = userId, !.body = body,
                                   !.row = res.user, !.retBool = FALSE,
                                   !.pc = IF res.threw THEN "threw"
                                          ELSE IF res.user = Null THEN "returned"
                                          ELSE "update"]]
    /\ calls' = calls + 1
    /\ UNCHANGED <<users, nextId, everRows, packetVars>>

\* User.set from its UPDATE on
SetUpdate(t) ==
    /\ task[t].pc = "update"
    /\ users' = UpdateById(task[t].userId, task[t].body)
    /\ task' = [task EXCEPT ![t].updated = Cardinality(SelectById(task[t].userId)),
                            ![t].retBool = TRUE,
                            ![t].pc = "returned"]
    /\ UNCHANGED <<nextId, calls, everRows, packetVars>>

\* User.removeById up to its DELETE: await User.getById(userId, false)
RemoveCheck(t) ==
    /\ Start(t)
    /\ \E userId \in 1..MaxUsers :
          LET res == GetResult(SelectById(userId), FALSE)
          IN  task' = [task EXCEPT ![t] =
                  [IdleTask EXCEPT !.op = "removeById", !.userId = userId,
                                   !.row = res.user, !.retBool = FALSE,
                                   !.pc = IF res.threw THEN "threw"
                                          ELSE IF res.user = Null THEN "returned"
                                          ELSE "delete"]]
    /\ calls' = calls + 1
    /\ UNCHANGED <<users, nextId, everRows, packetVars>>

\* User.removeById from its DELETE on
RemoveDelete(t) ==
    /\ task[t].pc = "delete"
    /\ users' = DeleteById(task[t].userId)
    /\ task' = [task EXCEPT ![t].updated = Cardinality(SelectById(task[t].userId)),
                            ![t].retBool = TRUE,
                            ![t].pc = "returned"]
    /\ UNCHANGED <<nextId, calls, everRows, packetVars>>

\* User.create: the two hashes, the INSERT, and the sanitized row returned
Create(t) ==
    /\ Start(t)
    /\ nextId <= MaxUsers
    /\ \E userName \in UserNames, password \in Passwords, salt \in Salts :
          LET row == InsertedRow(nextId, userName, HashCreate(salt, password),
                                 1, HashCreate(salt, password))
          IN  /\ users' = users \cup {row}
              /\ everRows' = everRows \cup {row}
              /\ task' = [task EXCEPT ![t] =
                     [IdleTask EXCEPT !.op = "create", !.userName = userName,
                                      !.password = password,
                                      !.retUser = Some(SanitizeForPublic(row)),
                                      !.pc = "returned"]]
    /\ nextId' = nextId + 1
    /\ calls' = calls + 1
    /\ UNCHANGED packetVars

\* User.create whose INSERT the database rejects (the table's constraints are
\* not in the sources: a taken user name may be rejected)
CreateRejected(t) ==
    /\ Start(t)
    /\ \E userName \in UserNames, password \in Passwords :
          /\ SelectByName(userName) # {}
          /\ task' = [task EXCEPT ![t] =
                 [IdleTask EXCEPT !.op = "create", !.userName = userName,
                                  !.password = password, !.pc = "threw"]]
    /\ calls' = calls + 1
    /\ UNCHANGED <<users, nextId, everRows, packetVars>>

\* User.validateCredentials up to the hashing: await User.getByName(userName, false)
ValidateLookup(t) ==
    /\ Start(t)
    /\ \E userName \in UserNames, password \in Passwords :
          LET res == GetResult(SelectByName(userName), FALSE)
          IN  task' = [task EXCEPT ![t] =
                  [IdleTask EXCEPT !.op = "validateCredentials",
                                   !.userName = userName, !.password = password,
                                   !.row = res.user,
                                   !.pc = IF res.threw THEN "threw"
                                          ELSE IF res.user = Null THEN "returned"
                                          ELSE "compare"]]
    /\ calls' = calls + 1
    /\ UNCHANGED <<users, nextId, everRows, packetVars>>

\* mutant: the comparison's outcome is not looked at
ValidateResultUnchecked(user, password) == Some(user.id)

\* what validateCredentials returns for the user it found
ValidateResult(user, password) ==
    LET targetHash == HashFrom(user.password_hash[1])
        inputHash == CloneSettings(targetHash, password)
    IN  IF HashCompare(targetHash, inputHash) = FALSE THEN Null ELSE Some(user.id)

\* User.validateCredentials from the hashing on
ValidateCompare(t) ==
    /\ task[t].pc = "compare"
    /\ task' = [task EXCEPT ![t].retId = ValidateResult(task[t].row[1], task[t].password),
                            ![t].pc = "returned"]
    /\ UNCHANGED <<users, nextId, calls, everRows, packetVars>>

\* the caller has taken the result; the slot serves the next call
Finish(t) ==
    /\ task[t].pc \in {"returned", "threw"}
    /\ calls < MaxCalls
    /\ task' = [task EXCEPT ![t] = IdleTask]
    /\ UNCHANGED <<users, nextId, calls, everRows, packetVars>>

\* the account the table holds at the start
FirstUser == InsertedRow(1, "alice", HashCreate(0, 1), 1, HashCreate(0, 2))

InitUsers ==
    /\ users = {FirstUser}
    /\ everRows = {FirstUser}
    /\ nextId = 2
    /\ task = [t \in Tasks |-> IdleTask]
    /\ calls = 0

\* ----------------------------------------------------------- specifications

InitPacket(chans, active) ==
    /\ littleEndian \in BOOLEAN
    /\ channel \in [Builders -> chans]
    /\ \A b \in Builders \ active : channel[b] = Channel(0, NameEmpty)
    /\ desc = [b \in Builders |-> Null]
    /\ pc = [b \in Builders |-> IF b \in active THEN "new" ELSE "off"]
    /\ field = [b \in Builders |-> 1]
    /\ writer = [b \in Builders |-> EmptyWriter]
    /\ err = [b \in Builders |-> ""]
    /\ before = [b \in Builders |-> EmptyWriter]
    /\ ctorChan = [b \in Builders |-> Null]
    /\ ctorDesc = [b \in Builders |-> Null]
    /\ lastBytes = [b \in Builders |-> Null]
    /\ builds = [b \in Builders |-> 0]
    /\ mutations = [b \in Builders |-> 0]
    /\ overlapped = FALSE

\* one descriptor: made of any Channel, built, built again, its Channel changed
Init == InitPacket(Channels, {1}) /\ InitUsers

Next ==
    \E b \in Builders :
        \/ Construct(b)
        \/ MutateChannel(b)
        \/ CallBuild(b)
        \/ BuildStep(b)
        \/ Rebuild(b)

Spec == Init /\ [][Next]_vars

\* two descriptors of two different Channels, built at once on two writers
ConcInit ==
    /\ InitPacket(ConcChannels, Builders)
    /\ InitUsers
    /\ channel[1] # channel[2]

ConcNext ==
    \E b \in Builders :
        \/ Construct(b)
        \/ CallBuild(b)
        \/ BuildStep(b)

ConcSpec == ConcInit /\ [][ConcNext]_vars

\* calls of User operations on a table of one account
UserInit == InitPacket({Channel(0, NameEmpty)}, {}) /\ InitUsers

UserNext ==
    \E t \in Tasks :
        \/ GetById(t)
        \/ GetByName(t)
        \/ SetCheck(t)
        \/ SetUpdate(t)
        \/ RemoveCheck(t)
        \/ RemoveDelete(t)
        \/ Create(t)
        \/ CreateRejected(t)
        \/ ValidateLookup(t)
        \/ ValidateCompare(t)
        \/ Finish(t)

UserSpec == UserInit /\ [][UserNext]_vars


\* ------------------------------------------------------------ the mirror reader

\* the seven fields read back from the bytes of one channel info
ReadChannelInfo(bs) ==
    LET last == 2 + bs[2]
        u16(q) == IF littleEndian THEN bs[q] + 256 * bs[q + 1]
                  ELSE 256 * bs[q] + bs[q + 1]
    IN  <<bs[1], Utf8Decode(SubSeq(bs, 3, last)), u16(last + 1), u16(last + 3),
          bs[last + 5], bs[last + 6], bs[last + 7]>>

\* the encoded length of a name: its length byte and its UTF-8 bytes
EncodedLen(name) == 1 + Len(Utf8Encode(name))

\* the bytes of the first n fields of a channel info with that name
PrefixLen(name, n) ==
    CASE n = 0 -> 0
      [] n = 1 -> 1
      [] n = 2 -> 1 + EncodedLen(name)
      [] n = 3 -> 3 + EncodedLen(name)
      [] n = 4 -> 5 + EncodedLen(name)
      [] n = 5 -> 6 + EncodedLen(name)
      [] n = 6 -> 7 + EncodedLen(name)
      [] n = 7 -> 8 + EncodedLen(name)

ValidIndex(ch) == ch.index \in 0..UInt8Max
ValidName(ch) == Len(Utf8Encode(ch.name)) <= UInt8Max
Built(b) == ctorChan[b] # Null /\ pc[b] \in {"build", "done", "failed"}

\* ---------------------------------------------------------------- the claims

\* C1: for a Channel with index in [0,255] and a name within the maximum
\* encodable length, build never fails; its n-th write call finds exactly the
\* bytes of the first n-1 fields appended; when it returns it has appended
\* 8 bytes plus the encoded length of the name after the bytes the writer held,
\* the cursor has advanced by as much, and reading the bytes back gives
\* (index, name, 4, 0x1F4, 1, 0, 1).
C1_BuildWritesSevenFields ==
    \A b \in Builders :
        (Built(b) /\ ValidIndex(ctorChan[b][1]) /\ ValidName(ctorChan[b][1])) =>
            LET ch == ctorChan[b][1]
            IN  /\ pc[b] # "failed"
                /\ SubSeq(writer[b].buf, 1, Len(before[b].buf)) = before[b].buf
                /\ writer[b].offset = before[b].offset + Len(Appended(b))
                /\ pc[b] = "build" =>
                      Len(Appended(b)) = PrefixLen(ch.name, field[b] - 1)
                /\ pc[b] = "done" =>
                      /\ Len(Appended(b)) = 8 + EncodedLen(ch.name)
                      /\ ReadChannelInfo(Appended(b)) =
                            <<ch.index, ch.name, 4, 500, 1, 0, 1>>

\* C1 witness: a build has returned for index 255 and a two-byte character
C1_Witness ==
    /\ pc[1] = "done"
    /\ ctorChan[1] = Some(Channel(UInt8Max, NameCafe))
    /\ Len(Appended(1)) = 12

\* C2 (as claimed): a build that failed on an over-long name failed with the
\* encoding range error and left the writer, bytes and cursor, as it was when
\* build was called.
C2_OverlongNameLeavesNoBytes ==
    \A b \in Builders :
        (Built(b) /\ pc[b] = "failed" /\ ~ValidName(ctorChan[b][1])) =>
            /\ err[b] = "EncodingRangeError"
            /\ writer[b] = before[b]

\* C3 (as claimed): the descriptor of Channel{index:3, name:"Lobby"} builds to
\* 0x03, the encoded "Lobby", the two bytes of 0x1F4, 0x01, 0x00, 0x01.
C3_LobbyFixtureAsClaimed ==
    \A b \in Builders :
        (pc[b] = "done" /\ ctorChan[b] = Some(Channel(3, NameLobby))) =>
            \/ Appended(b) = <<3>> \o writeString(EmptyWriter, NameLobby).w.buf
                                \o <<244, 1>> \o <<1, 0, 1>>
            \/ Appended(b) = <<3>> \o writeString(EmptyWriter, NameLobby).w.buf
                                \o <<1, 244>> \o <<1, 0, 1>>

\* C3 (amended): the descriptor of Channel{index:3, name:"Lobby"} builds to
\* 0x03, the encoded "Lobby", the two bytes of 4, the two bytes of 0x1F4 (both
\* in the protocol's byte order), 0x01, 0x00, 0x01, and nothing else.
C3_LobbyFixture ==
    \A b \in Builders :
        (pc[b] = "done" /\ ctorChan[b] = Some(Channel(3, NameLobby))) =>
            Appended(b) = <<3>> \o writeString(EmptyWriter, NameLobby).w.buf
                             \o (IF littleEndian THEN <<4, 0, 244, 1>>
                                 ELSE <<0, 4, 1, 244>>)
                             \o <<1, 0, 1>>

\* C3 witness: the Lobby descriptor has been built, little-endian
C3_Witness ==
    /\ pc[1] = "done"
    /\ ctorChan[1] = Some(Channel(3, NameLobby))
    /\ littleEndian
    /\ Len(Appended(1)) = 14

\* C4: for a Channel whose index is outside [0,255], build never completes:
\* its first write call fails with the encoding range error and no byte, so no
\* truncated or wrapped id, is appended.
C4_IndexOutOfRangeFails ==
    \A b \in Builders :
        (Built(b) /\ ~ValidIndex(ctorChan[b][1])) =>
            /\ pc[b] # "done"
            /\ Appended(b) = <<>>
            /\ pc[b] = "build" => field[b] = 1
            /\ pc[b] = "failed" => err[b] = "EncodingRangeError"

\* C4 witness: the build of a descriptor of index 256 has failed
C4_Witness ==
    /\ pc[1] = "failed"
    /\ ctorChan[1] = Some(Channel(UInt8Max + 1, NameLobby))

\* C5 (as claimed): set returns true only if its UPDATE updated the row with
\* that id, and returns false, with every row left as it was found, only when
\* it found no user with that id.
C5_SetTrueOnlyIfUpdated ==
    \A t \in Tasks :
        (task[t].op = "set" /\ task[t].pc = "returned") =>
            /\ task[t].retBool = TRUE => task[t].updated = 1
            /\ task[t].retBool = FALSE => (task[t].row = Null /\ task[t].updated = 0)

\* the rows ever inserted under a name whose stored password hash equals the
\* hash of a password computed with the stored hash's settings
Matching(userName, password) ==
    {r \in everRows :
        /\ r.username = userName
        /\ HashCompare(HashFrom(r.password_hash[1]),
                       CloneSettings(HashFrom(r.password_hash[1]), password))}

\* C6: validateCredentials returns an id only if it found a user of the given
\* name whose stored password_hash equals the hash of the given password
\* computed with the stored hash's settings, and the id is that user's; when it
\* found no user of that name, or the hashes differ, it returns null.
C6_ValidateCredentials ==
    \A t \in Tasks :
        (task[t].op = "validateCredentials" /\ task[t].pc = "returned") =>
            LET hits == Matching(task[t].userName, task[t].password)
                found == task[t].row
            IN  /\ task[t].retId # Null =>
                      /\ found # Null
                      /\ task[t].retId = Some(found[1].id)
                      /\ \E r \in hits : r.id = found[1].id
                /\ (found = Null \/ \A r \in hits : r.id # found[1].id) =>
                      task[t].retId = Null

\* C6 witness: the id of alice is returned for a password that is not the one
\* the account was created with but hashes, with the stored settings, to the
\* stored hash
C6_Witness ==
    /\ task[1].op = "validateCredentials"
    /\ task[1].pc = "returned"
    /\ task[1].userName = "alice"
    /\ task[1].password = 3
    /\ task[1].retId = Some(1)

\* C7: a user object returned by create, or by getById or getByName with
\* sanitize omitted or true, has password_hash, security_question_index and
\* security_answer_hash null; one returned with sanitize false has the three
\* as they are stored.
C7_SanitizedUnlessAskedNotTo ==
    \A t \in Tasks :
        (/\ task[t].op \in {"create", "getById", "getByName"}
         /\ task[t].pc = "returned"
         /\ task[t].retUser # Null) =>
            LET u == task[t].retUser[1]
            IN  IF task[t].op = "create" \/ task[t].sanitize \in {"omitted", "true"}
                THEN /\ u.password_hash = Null
                     /\ u.security_question_index = Null
                     /\ u.security_answer_hash = Null
                ELSE \E r \in everRows :
                        /\ r.id = u.id
                        /\ u.password_hash = r.password_hash
                        /\ u.security_question_index = r.security_question_index
                        /\ u.security_answer_hash = r.security_answer_hash
                        /\ u.password_hash # Null
                        /\ u.security_answer_hash # Null

\* C7 witness: getByName without the sanitize argument and getById with
\* sanitize false have both returned a user
C7_Witness ==
    /\ task[1].op = "getByName" /\ task[1].pc = "returned"
    /\ task[1].sanitize = "omitted" /\ task[1].retUser # Null
    /\ task[2].op = "getById" /\ task[2].pc = "returned"
    /\ task[2].sanitize = "false" /\ task[2].retUser # Null

\* C8: with two builds of two different Channels interleaved write call by
\* write call, each writer holds at every moment what the build of its
\* descriptor alone writes: a prefix of it while the build runs, all of it (and
\* the same outcome) when the build has returned or failed.
C8_ConcurrentEqualsSequential ==
    \A b \in Builders :
        Built(b) =>
            LET alone == BuildFrom(desc[b][1], 1, before[b])
            IN  /\ pc[b] = "done" => alone.ok /\ writer[b] = alone.w
                /\ pc[b] = "failed" => ~alone.ok /\ writer[b] = alone.w
                /\ pc[b] = "build" =>
                      /\ writer[b].buf = SubSeq(alone.w.buf, 1, Len(writer[b].buf))
                      /\ BuildFrom(desc[b][1], field[b], writer[b]) = alone

\* C8 witness: both builds have returned and their write calls interleaved
C8_Witness ==
    /\ pc[1] = "done"
    /\ pc[2] = "done"
    /\ overlapped
    /\ channel[1] # channel[2]

\* C9: a write call of build changes nothing but the writer: the descriptor's
\* seven fields and the Channel's index and name are after it what they were
\* before, and a build of the same descriptor on another fresh writer appends
\* the bytes its previous build appended.
C9_BuildLeavesInputs ==
    [][\A b \in Builders :
          (pc[b] = "build" /\ (pc'[b] # pc[b] \/ field'[b] # field[b])) =>
              /\ desc' = desc
              /\ channel' = channel
              /\ desc'[b] = ctorDesc[b]
              /\ (pc'[b] = "done" /\ lastBytes[b] # Null) =>
                    SubSeq(writer'[b].buf, Len(before[b].buf) + 1,
                           Len(writer'[b].buf)) = lastBytes[b][1]]_vars

\* C9 witness: the second build of a descriptor has returned
C9_Witness ==
    /\ pc[1] = "done"
    /\ builds[1] = 2
    /\ lastBytes[1] # Null
    /\ before[1] # EmptyWriter

\* C10: whatever the Channel has been changed to since the descriptor was
\* made, the id byte and the name build has written are the index and the name
\* the Channel had when the descriptor was made.
C10_BuildWritesConstructionTimeValues ==
    \A b \in Builders :
        (Built(b) /\ ValidIndex(ctorChan[b][1])) =>
            LET ch == ctorChan[b][1]
                bs == Appended(b)
            IN  /\ (pc[b] = "build" /\ field[b] = 1) \/ (Len(bs) >= 1 /\ bs[1] = ch.index)
                /\ (pc[b] = "done" \/ (pc[b] = "build" /\ field[b] > 2)) =>
                      /\ bs[2] = Len(Utf8Encode(ch.name))
                      /\ Utf8Decode(SubSeq(bs, 3, 2 + bs[2])) = ch.name

\* C10 witness: the Channel was changed between construction and the call of
\* build (it is not changed while build runs), and build has written the name
C10_Witness ==
    /\ pc[1] = "build"
    /\ field[1] = 3
    /\ builds[1] = 1
    /\ mutations[1] = 1
    /\ channel[1].name # ctorChan[1][1].name
    /\ channel[1].index # ctorChan[1][1].index

====
